---- MODULE Spec2Model ----
(***************************************************************************)
(* Model of the task server: the PriorityQueue (a tokio Mutex around a     *)
(* std BinaryHeap of Tasks ordered by priority), the create_task handler   *)
(* that submits Tasks, and run_scheduler's dispatch loop with its fast     *)
(* (awaited, retried) and slow (spawned, not retried) paths.               *)
(***************************************************************************)
EXTENDS Integers, Sequences, FiniteSets, Bags, TLC

\* ------------------------------------------------------------------ bounds
\* Number of Tasks submitted through create_task in one run.
MaxTasks == 2

\* Queue harness: number of Tasks pushed before the pops start.
MaxPushes == 3

\* Queue harness: number of concurrent callers of PriorityQueue::pop.
MaxPoppers == 2

\* Priorities a submitter may send (u8): the routing threshold, its two
\* neighbours' sides, and the values the routing is documented with.
Priorities == {50, 100, 101, 150}

\* Queue harness: the priorities of the repository's queue test and one more.
QPriorities == {10, 100, 150}

\* Payloads are opaque JSON values.
Payloads == {"a", "b"}

\* ------------------------------------------------------- program constants
MAX_RETRIES == 3

SLOW_THRESHOLD == 100

U8 == 256

\* ------------------------------------------------------------------- Task
TaskIds == 1..MaxTasks

NoTask == [id |-> 0, payload |-> "none", priority |-> 0, retry_count |-> 0]

\* The submitted priority capped at the fast path's limit.
NewTaskCapped(i, pl, pr) ==
    [id |-> i, payload |-> pl,
     priority |-> IF pr > SLOW_THRESHOLD THEN SLOW_THRESHOLD ELSE pr,
     retry_count |-> 0]

NewTask(i, pl, pr) == [id |-> i, payload |-> pl, priority |-> pr, retry_count |-> 0]

\* The comparison the other way round (other.priority.cmp(&self.priority)).
CmpReversed(self, other) ==
    IF other.priority < self.priority THEN "Less"
    ELSE IF other.priority = self.priority THEN "Equal"
    ELSE "Greater"

\* impl Ord for Task: the ordering of the priorities, nothing else.
Cmp(self, other) ==
    IF self.priority < other.priority THEN "Less"
    ELSE IF self.priority = other.priority THEN "Equal"
    ELSE "Greater"

\* PartialOrd::le, derived from partial_cmp = Some(cmp).
TaskLe(a, b) == Cmp(a, b) \in {"Less", "Equal"}

\* ------------------------------------------------------------- BinaryHeap
\* The heap is the Vec of std's BinaryHeap; Rust index i is TLA+ index i+1.
At(d, i) == d[i + 1]

Put(d, i, x) == [d EXCEPT ![i + 1] = x]

\* BinaryHeap::sift_up with the hole holding elt at position pos.
RECURSIVE SiftUp(_, _, _, _)
SiftUp(d, elt, start, pos) ==
    IF pos > start
    THEN LET parent == (pos - 1) \div 2 IN
         IF TaskLe(elt, At(d, parent))
         THEN Put(d, pos, elt)
         ELSE SiftUp(Put(d, pos, At(d, parent)), elt, start, parent)
    ELSE Put(d, pos, elt)

\* BinaryHeap::sift_down_to_bottom: move the hole to a leaf along the larger
\* children; returns <<data, final position of the hole>>.
RECURSIVE SiftDownToBottom(_, _, _)
SiftDownToBottom(d, pos, end) ==
    LET child == 2 * pos + 1 IN
    IF child + 2 <= end
    THEN LET c == IF TaskLe(At(d, child), At(d, child + 1)) THEN child + 1 ELSE child
         IN SiftDownToBottom(Put(d, pos, At(d, c)), c, end)
    ELSE IF child = end - 1
    THEN <<Put(d, pos, At(d, child)), child>>
    ELSE <<d, pos>>

\* BinaryHeap::push
HeapPush(d, item) == SiftUp(Append(d, item), item, 0, Len(d))

\* A pop that takes the Vec's last element without restoring the heap.
HeapPopLast(d) ==
    IF Len(d) = 0 THEN <<NoTask, d>>
    ELSE <<d[Len(d)], SubSeq(d, 1, Len(d) - 1)>>

\* A pop that returns the top but removes the last element in its place.
HeapPopTopDropLast(d) ==
    IF Len(d) = 0 THEN <<NoTask, d>>
    ELSE <<d[1], SubSeq(d, 1, Len(d) - 1)>>

\* BinaryHeap::pop, as <<Option<Task>, data afterwards>>; None is NoTask.
HeapPop(d) ==
    IF Len(d) = 0 THEN <<NoTask, d>>
    ELSE LET item == d[Len(d)]
             rest == SubSeq(d, 1, Len(d) - 1)
         IN IF Len(rest) = 0 THEN <<item, rest>>
            ELSE LET down == SiftDownToBottom(rest, 0, Len(rest))
                 IN <<rest[1], SiftUp(down[1], item, 0, down[2])>>

\* ------------------------------------------------------------------ state
VARIABLES
    heap,       \* PriorityQueue.heap: the BinaryHeap's Vec
    lock,       \* holder of the tokio Mutex around the heap
    nextId,     \* ids handed out so far (Uuid::new_v4 is fresh every time)
    pending,    \* Tasks built by a caller of push that await the lock
    responses,  \* id -> status code create_task returned
    sched_pc,   \* where run_scheduler's loop is
    cur,        \* run_scheduler's local `task`
    slow,       \* spawned handle_slow_task futures: [task, at]
    pops,       \* id -> how often PriorityQueue::pop returned the Task
    requeues,   \* id -> retry_counts with which the scheduler pushed it back
    path,       \* id -> execution path of its last dispatch
    outcome,    \* id -> how the Task ended
    qphase,     \* queue harness: "push" while pushers run, then "pop"
    pushed,     \* queue harness: the Tasks pushed, in lock order
    popping,    \* queue harness: callers of pop that await the lock
    popped,     \* queue harness: what each pop returned, in lock order
    overlapped  \* queue harness: two calls of pop were in flight at once

queueVars == <<heap, lock>>

webVars == <<nextId, pending, responses>>

schedVars == <<sched_pc, cur, slow>>

histVars == <<pops, requeues, path, outcome>>

harnessVars == <<qphase, pushed, popping, popped, overlapped>>

vars == <<heap, lock, nextId, pending, responses, sched_pc, cur, slow,
          pops, requeues, path, outcome, qphase, pushed, popping, popped, overlapped>>

Free == <<"free", 0>>

SchedLock == <<"sched", 0>>

PushLock(i) == <<"push", i>>

PopLock(c) == <<"pop", c>>

Init ==
    /\ heap = << >>
    /\ lock = Free
    /\ nextId = 0
    /\ pending = {}
    /\ responses = [i \in TaskIds |-> "none"]
    /\ sched_pc = "pop"
    /\ cur = NoTask
    /\ slow = {}
    /\ pops = [i \in TaskIds |-> 0]
    /\ requeues = [i \in TaskIds |-> << >>]
    /\ path = [i \in TaskIds |-> "none"]
    /\ outcome = [i \in TaskIds |-> "none"]
    /\ qphase = "off"
    /\ pushed = << >>
    /\ popping = {}
    /\ popped = << >>
    /\ overlapped = FALSE

\* ------------------------------------------------------------- Mutex, queue
\* self.heap.lock().await returns once nobody holds the Mutex.
Acquire(who) ==
    /\ lock = Free
    /\ lock' = who

\* PriorityQueue::push after the lock is taken: heap.push, guard dropped.
QueuePush(who, task) ==
    /\ lock = who
    /\ heap' = HeapPush(heap, task)
    /\ lock' = Free

\* A pop whose caller keeps the guard after heap.pop.
QueuePopKeepsGuard(who) ==
    /\ lock = who
    /\ heap' = HeapPop(heap)[2]
    /\ lock' = who

\* PriorityQueue::pop after the lock is taken: heap.pop, guard dropped.
QueuePop(who) ==
    /\ lock = who
    /\ heap' = HeapPop(heap)[2]
    /\ lock' = Free

\* -------------------------------------------------------------- create_task
\* The handler builds the Task and calls queue.push, which awaits the lock.
CreateTask(pl, pr) ==
    /\ nextId < MaxTasks
    /\ nextId' = nextId + 1
    /\ pending' = pending \cup {NewTask(nextId + 1, pl, pr)}
    /\ UNCHANGED <<heap, lock, responses>>
    /\ UNCHANGED <<schedVars, histVars, harnessVars>>

WebPushLock(t) ==
    /\ t \in pending
    /\ Acquire(PushLock(t.id))
    /\ UNCHANGED <<heap, webVars, schedVars, histVars, harnessVars>>

\* A push that wakes the sleeping scheduler.
WebPushWakes(t) ==
    /\ t \in pending
    /\ QueuePush(PushLock(t.id), t)
    /\ pending' = pending \ {t}
    /\ responses' = [responses EXCEPT ![t.id] = "ACCEPTED"]
    /\ sched_pc' = IF sched_pc = "sleep" THEN "pop" ELSE sched_pc
    /\ UNCHANGED <<nextId, cur, slow, histVars, harnessVars>>

\* heap.push, then Ok(StatusCode::ACCEPTED).
WebPush(t) ==
    /\ t \in pending
    /\ QueuePush(PushLock(t.id), t)
    /\ pending' = pending \ {t}
    /\ responses' = [responses EXCEPT ![t.id] = "ACCEPTED"]
    /\ UNCHANGED <<nextId, schedVars, histVars, harnessVars>>

\* The threshold one too high.
RouteOffByOne(task) ==
    IF task.priority > SLOW_THRESHOLD + 1 THEN "slow" ELSE "fast"

\* ------------------------------------------------------------ run_scheduler
\* The threshold compared with `>=`.
RouteInclusive(task) == IF task.priority >= SLOW_THRESHOLD THEN "slow" ELSE "fast"

\* The classification of a popped Task.
Route(task) == IF task.priority > SLOW_THRESHOLD THEN "slow" ELSE "fast"

\* The bound compared with `<=`.
MayRetryInclusive(task) == task.retry_count <= MAX_RETRIES

\* `task.retry_count < MAX_RETRIES`
MayRetry(task) == task.retry_count < MAX_RETRIES

\* The Task pushed back without counting the retry.
RetriedUncounted(task) == task

\* The retried Task demoted by one priority step on each retry.
RetriedDemoted(task) ==
    [task EXCEPT !.retry_count = (@ + 1) % U8, !.priority = @ - 1]

\* `task.retry_count += 1` on a u8
Retried(task) == [task EXCEPT !.retry_count = (@ + 1) % U8]

\* Top of the loop: queue.pop() awaits the lock.
SchedPopLock ==
    /\ sched_pc = "pop"
    /\ Acquire(SchedLock)
    /\ sched_pc' = "pop_locked"
    /\ UNCHANGED <<heap, cur, slow, webVars, histVars, harnessVars>>

\* pop returned None: sleep(1s).
SchedPopNone ==
    /\ sched_pc = "pop_locked"
    /\ HeapPop(heap)[1] = NoTask
    /\ QueuePop(SchedLock)
    /\ sched_pc' = "sleep"
    /\ UNCHANGED <<cur, slow, webVars, histVars, harnessVars>>

\* The slow handler awaited in the loop instead of spawned.
SchedPopSlowAwaited ==
    /\ sched_pc = "pop_locked"
    /\ LET task == HeapPop(heap)[1] IN
       /\ task # NoTask
       /\ Route(task) = "slow"
       /\ QueuePop(SchedLock)
       /\ slow' = slow \cup {[task |-> task, at |-> "sleep"]}
       /\ cur' = NoTask
       /\ sched_pc' = "slow_wait"
       /\ pops' = [pops EXCEPT ![task.id] = @ + 1]
       /\ path' = [path EXCEPT ![task.id] = "slow"]
    /\ UNCHANGED <<requeues, outcome, webVars, harnessVars>>

\* pop returned a Task with priority > 100: tokio::spawn(handle_slow_task),
\* the loop goes on to its next iteration.
SchedPopSlow ==
    /\ sched_pc = "pop_locked"
    /\ LET task == HeapPop(heap)[1] IN
       /\ task # NoTask
       /\ Route(task) = "slow"
       /\ QueuePop(SchedLock)
       /\ slow' = slow \cup {[task |-> task, at |-> "sleep"]}
       /\ cur' = NoTask
       /\ sched_pc' = "pop"
       /\ pops' = [pops EXCEPT ![task.id] = @ + 1]
       /\ path' = [path EXCEPT ![task.id] = "slow"]
    /\ UNCHANGED <<requeues, outcome, webVars, harnessVars>>

\* The quick handler started but not awaited: the loop goes on.
SchedPopFastSpawned ==
    /\ sched_pc = "pop_locked"
    /\ LET task == HeapPop(heap)[1] IN
       /\ task # NoTask
       /\ Route(task) = "fast"
       /\ QueuePop(SchedLock)
       /\ cur' = task
       /\ sched_pc' = "pop"
       /\ pops' = [pops EXCEPT ![task.id] = @ + 1]
       /\ path' = [path EXCEPT ![task.id] = "fast"]
    /\ UNCHANGED <<slow, requeues, outcome, webVars, harnessVars>>

\* pop returned any other Task: handle_quick_task(&task).await.
SchedPopFast ==
    /\ sched_pc = "pop_locked"
    /\ LET task == HeapPop(heap)[1] IN
       /\ task # NoTask
       /\ Route(task) = "fast"
       /\ QueuePop(SchedLock)
       /\ cur' = task
       /\ sched_pc' = "quick"
       /\ pops' = [pops EXCEPT ![task.id] = @ + 1]
       /\ path' = [path EXCEPT ![task.id] = "fast"]
    /\ UNCHANGED <<slow, requeues, outcome, webVars, harnessVars>>

\* A success that still sends the Task back to the queue.
QuickOkRequeued ==
    /\ sched_pc = "quick"
    /\ outcome' = [outcome EXCEPT ![cur.id] = "succeeded"]
    /\ cur' = cur
    /\ sched_pc' = "push"
    /\ UNCHANGED <<slow, pops, requeues, path, queueVars, webVars, harnessVars>>

\* handle_quick_task returned Ok: the Task is dropped.
QuickOk ==
    /\ sched_pc = "quick"
    /\ outcome' = [outcome EXCEPT ![cur.id] = "succeeded"]
    /\ cur' = NoTask
    /\ sched_pc' = "pop"
    /\ UNCHANGED <<slow, pops, requeues, path, queueVars, webVars, harnessVars>>

\* handle_quick_task returned Err with retries left: count, then push.
QuickErrRetry ==
    /\ sched_pc = "quick"
    /\ MayRetry(cur)
    /\ cur' = Retried(cur)
    /\ sched_pc' = "push"
    /\ UNCHANGED <<slow, queueVars, webVars, histVars, harnessVars>>

\* The exhausted failure propagated out of the loop (`?` on the result).
QuickErrExhaustedReturns ==
    /\ sched_pc = "quick"
    /\ ~MayRetry(cur)
    /\ outcome' = [outcome EXCEPT ![cur.id] = "exhausted"]
    /\ cur' = NoTask
    /\ sched_pc' = "returned"
    /\ UNCHANGED <<slow, pops, requeues, path, queueVars, webVars, harnessVars>>

\* handle_quick_task returned Err with no retry left: the Task is given up.
QuickErrExhausted ==
    /\ sched_pc = "quick"
    /\ ~MayRetry(cur)
    /\ outcome' = [outcome EXCEPT ![cur.id] = "exhausted"]
    /\ cur' = NoTask
    /\ sched_pc' = "pop"
    /\ UNCHANGED <<slow, pops, requeues, path, queueVars, webVars, harnessVars>>

\* The retry handed to a spawned task that pushes later: the loop goes on to
\* its next pop without the Task in the queue.
SchedPushLockDeferred ==
    /\ sched_pc = "push"
    /\ pending' = pending \cup {cur}
    /\ cur' = NoTask
    /\ sched_pc' = "pop"
    /\ UNCHANGED <<heap, lock, slow, nextId, responses, histVars, harnessVars>>

\* queue_clone.push(task) awaits the lock.
SchedPushLock ==
    /\ sched_pc = "push"
    /\ Acquire(SchedLock)
    /\ sched_pc' = "push_locked"
    /\ UNCHANGED <<heap, cur, slow, webVars, histVars, harnessVars>>

\* The retry push of a copy: the scheduler keeps the Task it pushed.
SchedPushCopy ==
    /\ sched_pc = "push_locked"
    /\ QueuePush(SchedLock, cur)
    /\ requeues' = [requeues EXCEPT ![cur.id] = Append(@, cur.retry_count)]
    /\ cur' = cur
    /\ sched_pc' = "pop"
    /\ UNCHANGED <<slow, pops, path, outcome, webVars, harnessVars>>

\* The retried Task is back in the heap; next iteration.
SchedPush ==
    /\ sched_pc = "push_locked"
    /\ QueuePush(SchedLock, cur)
    /\ requeues' = [requeues EXCEPT ![cur.id] = Append(@, cur.retry_count)]
    /\ cur' = NoTask
    /\ sched_pc' = "pop"
    /\ UNCHANGED <<slow, pops, path, outcome, webVars, harnessVars>>

\* The idle sleep is over.
SchedWake ==
    /\ sched_pc = "sleep"
    /\ sched_pc' = "pop"
    /\ UNCHANGED <<cur, slow, queueVars, webVars, histVars, harnessVars>>

\* --------------------------------------------------------- handle_slow_task
\* sleep(5s) is over; save_data_to_db starts.
SlowSlept(h) ==
    /\ h \in slow
    /\ h.at = "sleep"
    /\ slow' = (slow \ {h}) \cup {[h EXCEPT !.at = "save"]}
    /\ UNCHANGED <<sched_pc, cur, queueVars, webVars, histVars, harnessVars>>

\* save_data_to_db returned Ok: the future ends.
SlowOk(h) ==
    /\ h \in slow
    /\ h.at = "save"
    /\ slow' = slow \ {h}
    /\ outcome' = [outcome EXCEPT ![h.task.id] = "succeeded"]
    /\ UNCHANGED <<sched_pc, cur, pops, requeues, path, queueVars, webVars, harnessVars>>

\* A failed slow Task sent back to the queue as the fast path does.
SlowErrRetried(h) ==
    /\ h \in slow
    /\ h.at = "save"
    /\ slow' = slow \ {h}
    /\ pending' = pending \cup {Retried(h.task)}
    /\ UNCHANGED <<sched_pc, cur, nextId, responses, queueVars, histVars, harnessVars>>

\* save_data_to_db returned Err: logged, the future ends.
SlowErr(h) ==
    /\ h \in slow
    /\ h.at = "save"
    /\ slow' = slow \ {h}
    /\ outcome' = [outcome EXCEPT ![h.task.id] = "failed"]
    /\ UNCHANGED <<sched_pc, cur, pops, requeues, path, queueVars, webVars, harnessVars>>

\* ------------------------------------------------------------ specification
Submit == \E pl \in Payloads, pr \in Priorities : CreateTask(pl, pr)

Web == \E t \in pending : WebPushLock(t) \/ WebPush(t)

Scheduler ==
    \/ SchedPopLock
    \/ SchedPopNone
    \/ SchedPopSlow
    \/ SchedPopFast
    \/ QuickOk
    \/ QuickErrRetry
    \/ QuickErrExhausted
    \/ SchedPushLock
    \/ SchedPush
    \/ SchedWake

SlowHandlers == \E h \in slow : SlowSlept(h) \/ SlowOk(h) \/ SlowErr(h)

Next == Submit \/ Web \/ Scheduler \/ SlowHandlers

Spec == Init /\ [][Next]_vars

\* ------------------------------------------------------------ queue harness
\* The PriorityQueue on its own, used as the repository's queue test uses it
\* but by concurrent callers: Tasks are pushed, then popped once too often.
Poppers == 1..MaxPoppers

InitQ ==
    /\ heap = << >>
    /\ lock = Free
    /\ nextId = 0
    /\ pending = {}
    /\ responses = [i \in TaskIds |-> "none"]
    /\ sched_pc = "off"
    /\ cur = NoTask
    /\ slow = {}
    /\ pops = [i \in TaskIds |-> 0]
    /\ requeues = [i \in TaskIds |-> << >>]
    /\ path = [i \in TaskIds |-> "none"]
    /\ outcome = [i \in TaskIds |-> "none"]
    /\ qphase = "push"
    /\ pushed = << >>
    /\ popping = {}
    /\ popped = << >>
    /\ overlapped = FALSE

\* A caller builds a Task and calls queue.push(task); the payload plays no
\* part in the queue, so the harness uses one.
QPushCall(pr) ==
    /\ qphase = "push"
    /\ nextId < MaxPushes
    /\ nextId' = nextId + 1
    /\ pending' = pending \cup {NewTask(nextId + 1, "a", pr)}
    /\ UNCHANGED <<heap, lock, responses, schedVars, histVars>>
    /\ UNCHANGED <<pushed, qphase, popping, popped, overlapped>>

QPushLock(t) ==
    /\ t \in pending
    /\ Acquire(PushLock(t.id))
    /\ UNCHANGED <<heap, webVars, schedVars, histVars, harnessVars>>

QPush(t) ==
    /\ t \in pending
    /\ QueuePush(PushLock(t.id), t)
    /\ pending' = pending \ {t}
    /\ pushed' = Append(pushed, t)
    /\ UNCHANGED <<nextId, responses, schedVars, histVars>>
    /\ UNCHANGED <<qphase, popping, popped, overlapped>>

\* Every push has returned: the pops begin.
QStartPops ==
    /\ qphase = "push"
    /\ pending = {}
    /\ qphase' = "pop"
    /\ UNCHANGED <<queueVars, webVars, schedVars, histVars>>
    /\ UNCHANGED <<pushed, popping, popped, overlapped>>

\* Caller c calls queue.pop(); one pop more than there are Tasks is issued.
QPopCall(c) ==
    /\ qphase = "pop"
    /\ c \notin popping
    /\ Len(popped) + Cardinality(popping) < Len(pushed) + 1
    /\ popping' = popping \cup {c}
    /\ overlapped' = (overlapped \/ popping # {})
    /\ UNCHANGED <<queueVars, webVars, schedVars, histVars, qphase, pushed, popped>>

QPopLock(c) ==
    /\ c \in popping
    /\ Acquire(PopLock(c))
    /\ UNCHANGED <<heap, webVars, schedVars, histVars, harnessVars>>

QPop(c) ==
    /\ c \in popping
    /\ QueuePop(PopLock(c))
    /\ popped' = Append(popped, HeapPop(heap)[1])
    /\ popping' = popping \ {c}
    /\ UNCHANGED <<webVars, schedVars, histVars, qphase, pushed, overlapped>>

NextQ ==
    \/ \E pr \in QPriorities : QPushCall(pr)
    \/ \E t \in pending : QPushLock(t) \/ QPush(t)
    \/ QStartPops
    \/ \E c \in Poppers : QPopCall(c) \/ QPopLock(c) \/ QPop(c)

SpecQ == InitQ /\ [][NextQ]_vars

\* ------------------------------------------------------------------ helpers
Range(s) == {s[k] : k \in DOMAIN s}

BagOf(s) == [x \in Range(s) |-> Cardinality({k \in DOMAIN s : s[k] = x})]

Ids(s) == {s[k].id : k \in DOMAIN s}

IsPrefix(s, t) == Len(s) <= Len(t) /\ \A k \in 1..Len(s) : s[k] = t[k]

\* ---------------------------------------------------------- claims: queue
\* C1: Tasks pushed onto an empty queue with no pop in between are popped in
\* non-increasing order of priority, one per pop, and the pop after the last
\* of them signals empty.
C1_PopsInPriorityOrder ==
    qphase = "pop" =>
        /\ \A k \in 1..Len(popped) :
              (k <= Len(pushed)) <=> (popped[k] # NoTask)
        /\ \A j, k \in 1..Len(popped) :
              (j < k /\ k <= Len(pushed))
                  => popped[j].priority >= popped[k].priority

\* Push 10, push 100: the pops gave 100, then 10, then empty.
C1_Witness ==
    /\ Len(pushed) = 2
    /\ pushed[1].priority = 10
    /\ pushed[2].priority = 100
    /\ Len(popped) = 3
    /\ popped[1].priority = 100
    /\ popped[2].priority = 10
    /\ popped[3] = NoTask

\* C3: N Tasks pushed by concurrent pushers and then popped by concurrent
\* poppers: no Task is returned twice, and the first N pops together return
\* exactly the pushed Tasks.
C3_NoDuplicateNoLoss ==
    qphase = "pop" =>
        /\ \A j, k \in 1..Len(popped) :
              (j # k /\ popped[j] # NoTask)
                  => popped[j].id # popped[k].id
        /\ \A k \in 1..Len(popped) :
              popped[k] # NoTask => popped[k] \in Range(pushed)
        /\ Range(pushed) = ({popped[k] : k \in 1..Len(popped)} \ {NoTask})
                               \cup Range(heap)
        /\ Len(popped) >= Len(pushed)
              => {popped[k] : k \in 1..Len(pushed)} = Range(pushed)

\* Three Tasks were pushed and all of them popped by overlapping calls.
C3_Witness ==
    /\ qphase = "pop"
    /\ Len(pushed) >= 3
    /\ Len(popped) >= Len(pushed)
    /\ Len(popped) = Len(pushed)
    /\ overlapped

\* ------------------------------------------------------ claims: scheduler
\* Every Task that exists: queued, awaiting its push, held by the scheduler
\* or by a spawned slow handler.
Live ==
    Range(heap) \cup pending \cup {h.task : h \in slow}
        \cup (IF cur = NoTask THEN {} ELSE {cur})

LiveIds == {t.id : t \in Live}

\* The step is a return of PriorityQueue::pop to the scheduler.
SchedPopReturns == sched_pc = "pop_locked" /\ sched_pc' # "pop_locked"

\* C2: a pop on a non-empty queue removes exactly one Task, whose priority is
\* at least that of every Task left behind; a pop returns empty only when the
\* queue held nothing since the pop took the lock, and changes nothing then.
C2_PopTakesAMaximum ==
    [][/\ (sched_pc = "pop_locked" /\ ~SchedPopReturns) => heap' = heap
       /\ (SchedPopReturns /\ heap = << >>)
             => (heap' = heap /\ pops' = pops /\ sched_pc' = "sleep")
       /\ (SchedPopReturns /\ heap # << >>)
             => \E t \in Range(heap) :
                   /\ pops' = [pops EXCEPT ![t.id] = @ + 1]
                   /\ cur' = t \/ [task |-> t, at |-> "sleep"] \in slow'
                   /\ BagOf(heap) = BagOf(heap') (+) SetToBag({t})
                   /\ \A u \in Range(heap') : t.priority >= u.priority
      ]_vars

\* The scheduler popped a retried Task while a Task of lower priority stayed
\* in the queue.
C2_Witness ==
    /\ sched_pc = "quick"
    /\ cur.retry_count >= 1
    /\ \E u \in Range(heap) : u.priority < cur.priority

\* C4: the scheduler pushes a fast-path Task back with retry_count 1, then 2,
\* then 3 and never again; a Task whose handler failed every time has been
\* pushed back exactly these three times when it is given up, and is gone.
C4_ThreeRequeues ==
    \A i \in TaskIds :
        /\ IsPrefix(requeues[i], <<1, 2, 3>>)
        /\ outcome[i] = "exhausted"
              => /\ requeues[i] = <<1, 2, 3>>
                 /\ path[i] = "fast"
                 /\ i \notin LiveIds

\* A Task was given up after its retries.
C4_Witness == \E i \in TaskIds : outcome[i] = "exhausted"

\* C5 as stated: a Task whose handler has always failed is never returned by
\* pop a 4th time.
C5_AtMostThreePops ==
    \A i \in TaskIds : outcome[i] # "succeeded" => pops[i] <= 3

\* C5, amended: a Task is returned by pop at most 4 times, the first attempt
\* and one per retry; a 5th pop of it never occurs.
C5_AtMostFourPops == \A i \in TaskIds : pops[i] <= 4

\* A Task whose handler failed every time was popped 4 times and given up.
C5_Witness ==
    \E i \in TaskIds : pops[i] = 4 /\ outcome[i] = "exhausted" /\ cur = NoTask

\* C6: no Task in the queue or held by the scheduler or a handler has a
\* retry_count above 3, and a Task that failed with retry_count 3 was not
\* pushed again: retry_count 3 is pushed at most once, and a Task given up
\* is nowhere.
C6_RetryCountBounded ==
    /\ \A t \in Live : t.retry_count <= 3 /\ t.retry_count + 1 < U8
    /\ \A i \in TaskIds :
          /\ \A k \in DOMAIN requeues[i] : requeues[i][k] <= 3
          /\ Cardinality({k \in DOMAIN requeues[i] : requeues[i][k] = 3}) <= 1
          /\ outcome[i] = "exhausted" => i \notin LiveIds

\* A Task failed with retry_count 3 and the loop went on without it.
C6_Witness ==
    \E i \in TaskIds :
        /\ outcome[i] = "exhausted"
        /\ Len(requeues[i]) = 3
        /\ requeues[i][3] = 3
        /\ sched_pc = "pop_locked"

\* C7: the execution path of a popped Task follows from its priority alone:
\* above 100 it is handed to a spawned slow handler, at 100 or below the
\* scheduler awaits the quick handler on it.
C7_RoutedByPriority ==
    [][\A i \in TaskIds :
          pops'[i] = pops[i] + 1
              => \E t \in Range(heap) :
                    /\ t.id = i
                    /\ IF t.priority > 100
                       THEN /\ [task |-> t, at |-> "sleep"] \in slow' \ slow
                            /\ cur' = NoTask
                            /\ sched_pc' # "quick"
                            /\ path'[i] = "slow"
                       ELSE /\ cur' = t
                            /\ sched_pc' = "quick"
                            /\ slow' = slow
                            /\ path'[i] = "fast"
      ]_vars

\* Priority 150 is with a slow handler, and priority 50 is on the fast path
\* although it has been retried.
C7_Witness ==
    /\ \E h \in slow : h.task.priority = 150
    /\ sched_pc = "quick"
    /\ cur.priority = 50
    /\ cur.retry_count >= 1

\* C8: a Task dispatched to the slow path has been popped once, is never
\* pushed back, keeps its retry_count, and is with its handler until it ends
\* as succeeded or failed.
C8_SlowNeverRetried ==
    \A i \in TaskIds :
        path[i] = "slow"
            => /\ pops[i] = 1
               /\ requeues[i] = << >>
               /\ outcome[i] \in {"none", "succeeded", "failed"}
               /\ i \notin Ids(heap)
               /\ i \notin {t.id : t \in pending}
               /\ cur.id # i
               /\ (outcome[i] = "none") <=> (\E h \in slow : h.task.id = i)
               /\ \A h \in slow : h.task.id = i => h.task.retry_count = 0

\* A slow handler failed: its Task ended as failed.
C8_Witness ==
    \E i \in TaskIds : path[i] = "slow" /\ outcome[i] = "failed"

\* C9: the step that dispatches a slow Task leaves the scheduler at the top
\* of its loop with the lock free, and while slow handlers are running the
\* scheduler can always take its next step unless a pusher holds the lock.
C9_SlowDoesNotBlock ==
    /\ [](slow # {} => (ENABLED Scheduler \/ lock[1] = "push"))
    /\ [][(\E h \in slow' : h.task \notin {g.task : g \in slow})
             => /\ \A h \in slow' \ slow : h.at = "sleep"
                /\ sched_pc' = "pop"
                /\ cur' = NoTask
                /\ lock' = Free
         ]_vars

\* The scheduler popped a further Task and is handling it while a slow
\* handler is still in its delay.
C9_Witness ==
    /\ \E h \in slow : h.at = "sleep" /\ pops[h.task.id] = 1
    /\ sched_pc = "quick"
    /\ cur # NoTask

\* Tasks dispatched to the fast path that have neither ended nor gone back
\* to the queue.
InQuickHandling ==
    {i \in TaskIds : path[i] = "fast" /\ outcome[i] = "none" /\ i \notin Ids(heap)}

\* C10: at most one Task is on the fast path at a time, and as long as its
\* handler has not returned no pop happens and no Task leaves the queue.
C10_FastBlocksTheLoop ==
    /\ [](/\ Cardinality(InQuickHandling) <= 1
          /\ \A i \in InQuickHandling : cur.id = i
          /\ sched_pc = "quick" => lock # SchedLock)
    /\ [][(cur # NoTask /\ sched_pc \notin {"push", "push_locked"})
             => /\ pops' = pops
                /\ BagOf(heap) \sqsubseteq BagOf(heap')
                /\ sched_pc' \notin {"pop_locked", "sleep"}
         ]_vars

\* A Task of higher priority was pushed while the quick handler runs, and
\* waits in the queue.
C10_Witness ==
    /\ sched_pc = "quick"
    /\ \E u \in Range(heap) : u.priority > cur.priority /\ u.retry_count = 0

\* The positions of run_scheduler's loop.
LoopStates == {"pop", "pop_locked", "quick", "push", "push_locked", "sleep"}

\* C11: the scheduler never leaves its loop: a quick handler's success, its
\* failure with the Task given up, the push of a retried Task and the spawn
\* of a slow handler each lead straight back to the next pop, a failure with
\* retries left leads to the push, and the loop can always go on unless a
\* pusher holds the lock.
C11_LoopNeverStops ==
    /\ [](sched_pc \in LoopStates)
    /\ [](ENABLED Scheduler \/ lock[1] = "push")
    /\ [][/\ \A i \in TaskIds :
                (outcome[i] = "none" /\ outcome'[i] \in {"succeeded", "exhausted"}
                     /\ path[i] = "fast")
                    => (sched_pc = "quick" /\ sched_pc' = "pop")
          /\ (sched_pc = "quick" /\ sched_pc' # "quick")
                => sched_pc' \in {"pop", "push"}
          /\ (sched_pc = "push" /\ sched_pc' # "push") => sched_pc' = "push_locked"
          /\ (sched_pc = "push_locked" /\ sched_pc' # "push_locked")
                => sched_pc' = "pop"
          /\ (\E h \in slow' : h.task \notin {g.task : g \in slow})
                => sched_pc' = "pop"
          /\ outcome' # outcome => sched_pc' \in {sched_pc, "pop"}
      ]_vars

\* A Task was given up, and the scheduler has popped another Task since.
C11_Witness ==
    \E i \in TaskIds :
        /\ outcome[i] = "exhausted"
        /\ sched_pc = "quick"
        /\ cur.id # i

\* The Task with id i as it is now, wherever it is.
LiveTask == [i \in LiveIds |-> CHOOSE t \in Live : t.id = i]

\* The step is the retry branch taken for the Task the scheduler holds.
RetryStep == sched_pc = "quick" /\ sched_pc' = "push"

\* C12: the retry branch adds one to the retry_count of the Task the
\* scheduler holds, which was below 3, and leaves its id, payload and
\* priority alone; the Task then pushed and later popped is that Task; no
\* other step changes any field of any Task.
C12_OnlyRetryCountChanges ==
    [][/\ \A i \in LiveIds \cap LiveIds' :
             IF RetryStep /\ cur.id = i
             THEN /\ LiveTask[i].retry_count < 3
                  /\ LiveTask'[i] =
                        [LiveTask[i] EXCEPT !.retry_count = LiveTask[i].retry_count + 1]
                  /\ cur' = LiveTask'[i]
             ELSE LiveTask'[i] = LiveTask[i]
       /\ (sched_pc = "push_locked" /\ sched_pc' = "pop")
             => /\ cur \in Range(heap')
                /\ requeues'[cur.id] = Append(requeues[cur.id], cur.retry_count)
      ]_vars

\* A Task that failed once with retry_count 0 was pushed back and is popped
\* again, with retry_count 1.
C12_Witness ==
    /\ sched_pc = "quick"
    /\ cur.retry_count = 1
    /\ pops[cur.id] = 2
    /\ requeues[cur.id] = <<1>>

\* C13: a pop that finds the heap empty leaves queue, Tasks and outcomes as
\* they were and sends the scheduler to sleep; while it sleeps it takes no
\* lock and pops nothing, Tasks pushed meanwhile stay in the queue, and only
\* the end of the sleep, never a push, brings it back to the pop.
C13_IdleSleep ==
    /\ [](sched_pc = "sleep" => (cur = NoTask /\ lock # SchedLock))
    /\ [][/\ (SchedPopReturns /\ heap = << >>)
                => /\ sched_pc' = "sleep"
                   /\ <<heap, cur, slow, histVars>>' = <<heap, cur, slow, histVars>>
          /\ sched_pc = "sleep"
                => /\ sched_pc' \in {"sleep", "pop"}
                   /\ pops' = pops
                   /\ lock' # SchedLock
                   /\ BagOf(heap) \sqsubseteq BagOf(heap')
                   /\ heap' # heap => sched_pc' = "sleep"
                   /\ sched_pc' = "pop" => UNCHANGED <<heap, lock, pending>>
      ]_vars

\* A Task was pushed while the scheduler sleeps and waits in the queue.
C13_Witness ==
    /\ sched_pc = "sleep"
    /\ heap # << >>
    /\ lock = Free

\* C14: whatever payload and priority a caller sends, the submission builds
\* one Task with exactly these, an id no Task had and retry_count 0; its push
\* adds that one Task to the heap and answers ACCEPTED; the push can proceed
\* whenever the lock allows, whatever the scheduler and the queue hold, and
\* the answer never changes afterwards.
C14_SubmissionAccepted ==
    /\ [](\A pl \in Payloads, pr \in Priorities :
              nextId < MaxTasks
                  => ENABLED (/\ Submit
                              /\ pending' = pending \cup
                                    {[id |-> nextId + 1, payload |-> pl,
                                      priority |-> pr, retry_count |-> 0]}))
    /\ [](\A i \in TaskIds :
              /\ responses[i] \in {"none", "ACCEPTED"}
              /\ responses[i] = "ACCEPTED"
                    <=> (i <= nextId /\ i \notin {t.id : t \in pending}))
    /\ [](\A t \in pending :
              /\ lock = Free => ENABLED WebPushLock(t)
              /\ lock = PushLock(t.id) => ENABLED WebPush(t))
    /\ [][/\ nextId' # nextId
                => /\ nextId' = nextId + 1
                   /\ heap' = heap
                   /\ \E t \in pending' \ pending :
                         /\ pending' = pending \cup {t}
                         /\ t.id = nextId'
                         /\ t.id \notin LiveIds
                         /\ outcome[t.id] = "none" /\ pops[t.id] = 0
                         /\ t.retry_count = 0
                         /\ t.payload \in Payloads
                         /\ t.priority \in Priorities
          /\ responses' # responses
                => \E t \in pending :
                      /\ responses' = [responses EXCEPT ![t.id] = "ACCEPTED"]
                      /\ pending' = pending \ {t}
                      /\ BagOf(heap') = BagOf(heap) (+) SetToBag({t})
                      /\ UNCHANGED <<schedVars, histVars>>
          /\ \A i \in TaskIds :
                responses[i] = "ACCEPTED" => responses'[i] = "ACCEPTED"
      ]_vars

\* Two submissions were accepted; one Task was later given up, the other
\* failed on the slow path.
C14_Witness ==
    \E i, j \in TaskIds :
        /\ responses[i] = "ACCEPTED" /\ outcome[i] = "exhausted"
        /\ responses[j] = "ACCEPTED" /\ outcome[j] = "failed"

Life ==
    [i \in TaskIds |->
        IF i \in Ids(heap) THEN "Queued"
        ELSE IF \E t \in pending : t.id = i THEN "Created"
        ELSE IF cur.id = i /\ sched_pc = "quick" THEN "DispatchedFast"
        ELSE IF cur.id = i THEN "Retrying"
        ELSE IF \E h \in slow : h.task.id = i THEN "DispatchedSlow"
        ELSE IF outcome[i] = "succeeded" THEN "Succeeded"
        ELSE IF outcome[i] = "exhausted" THEN "Exhausted"
        ELSE IF outcome[i] = "failed" THEN "Failed"
        ELSE "None"]

LifeSteps ==
    {<<"None", "Created">>, <<"Created", "Queued">>,
     <<"Queued", "DispatchedFast">>, <<"Queued", "DispatchedSlow">>,
     <<"DispatchedFast", "Succeeded">>, <<"DispatchedFast", "Retrying">>,
     <<"Retrying", "Queued">>, <<"DispatchedFast", "Exhausted">>,
     <<"DispatchedSlow", "Succeeded">>, <<"DispatchedSlow", "Failed">>}

\* C16: a Task moves only along Queued -> Dispatched, Dispatched(fast) ->
\* Succeeded, Retrying or Exhausted, Retrying -> Queued, Dispatched(slow) ->
\* Succeeded or Failed; Succeeded, Exhausted and Failed are never left, and a
\* Task that has an outcome is in none of the other places.
C16_Lifecycle ==
    /\ [](\A i \in TaskIds :
              outcome[i] # "none"
                  => Life[i] \in {"Succeeded", "Exhausted", "Failed"})
    /\ [][\A i \in TaskIds :
              Life'[i] # Life[i] => <<Life[i], Life'[i]>> \in LifeSteps]_vars

\* One Task ended as exhausted, another as failed.
C16_Witness ==
    \E i, j \in TaskIds : Life[i] = "Exhausted" /\ Life[j] = "Failed"

\* In how many places the Task with id i is: entries of the heap, the
\* submitter's hands, the scheduler's, slow handlers, and the terminated.
Places(i) ==
    Cardinality({k \in DOMAIN heap : heap[k].id = i})
        + Cardinality({t \in pending : t.id = i})
        + (IF cur.id = i THEN 1 ELSE 0)
        + Cardinality({h \in slow : h.task.id = i})
        + (IF outcome[i] # "none" THEN 1 ELSE 0)

\* C17: every submitted Task is in exactly one place, a Task not yet
\* submitted in none; so no id is twice in the queue, and no Task is in the
\* queue while the scheduler or a handler holds it.
C17_ExactlyOnePlace ==
    /\ \A i \in TaskIds : Places(i) = (IF i <= nextId THEN 1 ELSE 0)
    /\ cur = NoTask <=> sched_pc \in {"pop", "pop_locked", "sleep"}
    /\ \A j, k \in DOMAIN heap : j # k => heap[j].id # heap[k].id
    /\ \A u \in Range(heap) :
          u.id # cur.id /\ \A h \in slow : h.task.id # u.id

\* A retried Task is back in the queue while a slow handler holds another.
C17_Witness ==
    /\ \E u \in Range(heap) : u.retry_count >= 1
    /\ \E h \in slow : h.at = "save"

\* The Task the scheduler handles synchronously, if any.
OnFastPath == sched_pc \in {"quick", "push", "push_locked"}

\* C18 as stated: every Task on the fast path has a priority below 100.
C18_FastBelowThreshold == OnFastPath => cur.priority < 100

\* C18, amended: every Task on the fast path has a priority of at most 100,
\* and every live Task whose last dispatch was the fast one has.
C18_FastAtMostThreshold ==
    /\ OnFastPath => (cur # NoTask /\ cur.priority <= 100)
    /\ \A t \in Live : path[t.id] = "fast" => t.priority <= 100

\* A Task of priority exactly 100 is handled on the fast path.
C18_Witness == sched_pc = "quick" /\ cur.priority = 100

\* Invocations of the quick handler on Task i that have returned Err, that
\* have returned Ok, and that are running.
QuickFailures(i) ==
    Len(requeues[i])
        + (IF cur.id = i /\ sched_pc \in {"push", "push_locked"} THEN 1 ELSE 0)
        + (IF outcome[i] = "exhausted" THEN 1 ELSE 0)

QuickSuccesses(i) == IF path[i] = "fast" /\ outcome[i] = "succeeded" THEN 1 ELSE 0

QuickRunning(i) == IF cur.id = i /\ sched_pc = "quick" THEN 1 ELSE 0

\* C20: the quick handler is invoked once per pop of a fast-path Task, at
\* most 4 times on one Task, of which at most 4 fail and at most one
\* succeeds: after a success the Task is nowhere, is not popped again and
\* stays succeeded.
C20_AtMostFourInvocations ==
    /\ [](\A i \in TaskIds :
              path[i] = "fast"
                  => /\ pops[i] = QuickFailures(i) + QuickSuccesses(i) + QuickRunning(i)
                     /\ pops[i] <= MAX_RETRIES + 1
                     /\ QuickFailures(i) <= MAX_RETRIES + 1
                     /\ QuickSuccesses(i) = 1 => i \notin LiveIds)
    /\ [][\A i \in TaskIds :
              outcome[i] = "succeeded"
                  => (outcome'[i] = "succeeded" /\ pops'[i] = pops[i])]_vars

\* A Task succeeded on its 4th invocation.
C20_Witness ==
    \E i \in TaskIds :
        pops[i] = 4 /\ outcome[i] = "succeeded" /\ requeues[i] = <<1, 2, 3>>

\* ------------------------------------------------ sustained load (starvation)
\* The program under a load and a schedule chosen against the first Task:
\* it is submitted with the lowest priority, every other submission has a
\* higher one and comes once the first Task is queued, a new submission
\* follows whenever a Task has ended, and the scheduler's pop is granted the
\* lock only when a Task of higher priority is in the queue beside the first.
LowId == 1

LowPriority == 50

HighPriorities == {pr \in Priorities : pr > LowPriority}

\* The first two kinds of submission are create_task as in Spec.
StarveSubmit ==
    \E pl \in Payloads :
        IF nextId = 0
        THEN CreateTask(pl, LowPriority)
        ELSE /\ LowId \in Ids(heap)
             /\ \E pr \in HighPriorities : CreateTask(pl, pr)

\* create_task called again after a Task has ended: the new Task (a fresh
\* Uuid) takes over the ended Task's entry in the records.
SubmitAgain(i, pl, pr) ==
    /\ outcome[i] # "none"
    /\ pending' = pending \cup {NewTask(i, pl, pr)}
    /\ responses' = [responses EXCEPT ![i] = "none"]
    /\ pops' = [pops EXCEPT ![i] = 0]
    /\ requeues' = [requeues EXCEPT ![i] = << >>]
    /\ path' = [path EXCEPT ![i] = "none"]
    /\ outcome' = [outcome EXCEPT ![i] = "none"]
    /\ UNCHANGED <<nextId, queueVars, schedVars, harnessVars>>

StarveLoad ==
    \E i \in TaskIds, pl \in Payloads, pr \in HighPriorities : SubmitAgain(i, pl, pr)

\* The scheduler's lock().await for a pop returns while a higher Task is
\* queued beside the low one, or the low one is not queued.
StarvePopLock ==
    /\ LowId \in Ids(heap) => \E u \in Range(heap) : u.priority > LowPriority
    /\ SchedPopLock

StarveScheduler ==
    \/ StarvePopLock
    \/ SchedPopNone
    \/ SchedPopSlow
    \/ SchedPopFast
    \/ QuickOk
    \/ QuickErrRetry
    \/ QuickErrExhausted
    \/ SchedPushLock
    \/ SchedPush
    \/ SchedWake

NextStarve == StarveSubmit \/ StarveLoad \/ Web \/ StarveScheduler \/ SlowHandlers

SpecStarve ==
    /\ Init
    /\ [][NextStarve]_vars
    /\ WF_vars(StarveSubmit)
    /\ WF_vars(StarveLoad)
    /\ SF_vars(Web)
    /\ SF_vars(StarveScheduler)
    /\ WF_vars(SlowHandlers)

\* C19: under sustained higher-priority load there are executions, fair for
\* the scheduler, the submitters' pushes (every lock().await returns) and
\* the slow handlers, in which the scheduler pops for ever and a queued Task
\* of lower priority is never popped: every execution of SpecStarve is one.
C19_LowPriorityStarves ==
    /\ [](pops[LowId] = 0)
    /\ <>[](LowId \in Ids(heap))
    /\ []<>(<<SchedPopFast \/ SchedPopSlow>>_vars)
    /\ SF_vars(Scheduler)
    /\ SF_vars(Web)
    /\ WF_vars(SlowHandlers)

\* The low Task is queued and unpopped while a Task submitted after it is in
\* its 4th attempt.
C19_Witness ==
    /\ LowId \in Ids(heap)
    /\ pops[LowId] = 0
    /\ sched_pc = "quick"
    /\ pops[cur.id] = 4

\* --------------------------------------------------------- fair executions
\* The program with the progress its runtime gives: the scheduler task and
\* the spawned slow handlers keep running (weak fairness), and a submitter's
\* queue.push(...).await gets the lock and completes (tokio's Mutex queues
\* its waiters, so an acquisition that can succeed again and again does).
\* create_task itself is called only when a client sends a request; the
\* payload, which no step of the program reads, is the same in every request.
LivePayload == "a"

SubmitLive == \E pr \in Priorities : CreateTask(LivePayload, pr)

NextLive == SubmitLive \/ Web \/ Scheduler \/ SlowHandlers

SpecLive ==
    /\ Init
    /\ [][NextLive]_vars
    /\ WF_vars(Scheduler)
    /\ WF_vars(SlowHandlers)
    /\ SF_vars(Web)

Terminal == {"succeeded", "exhausted", "failed"}

SchedulerIdle ==
    /\ heap = << >>
    /\ pending = {}
    /\ slow = {}
    /\ cur = NoTask
    /\ sched_pc \in {"pop", "pop_locked", "sleep"}

\* C21: with finitely many submissions and handlers that return, every
\* submitted Task eventually reaches a terminal state and stays in it, and
\* from some point on the queue stays empty with the scheduler only idling
\* (popping nothing and sleeping, for ever).
C21_EveryTaskTerminates ==
    /\ \A i \in TaskIds : (nextId >= i) ~> (outcome[i] \in Terminal)
    /\ [][\A i \in TaskIds : outcome[i] \in Terminal => outcome'[i] = outcome[i]]_vars
    /\ <>[]SchedulerIdle
    /\ []<>(sched_pc = "sleep")

\* Every Task has been submitted and has ended, one exhausted and one failed,
\* and the scheduler sleeps on an empty queue.
C21_Witness ==
    /\ nextId = MaxTasks
    /\ \A i \in TaskIds : outcome[i] \in Terminal
    /\ \E i, j \in TaskIds : outcome[i] = "exhausted" /\ outcome[j] = "failed"
    /\ SchedulerIdle
    /\ sched_pc = "sleep"

\* ------------------------------------------------- claims: immediate retry
\* Tasks that have failed and are still to be attempted again.
Awaiting == {t \in Live : t.retry_count > 0}

\* C22: a failed fast-path Task goes back into the queue at once, with the
\* priority it had: between the failure and the scheduler's next pop there is
\* only the push of that Task. A pop at which a retried Task has strictly the
\* highest priority in the queue returns that Task to the quick handler, and
\* no pop returns a Task of lower priority than a Task still to be retried.
C22_RetriedTaskPoppedNext ==
    [][/\ (sched_pc = "quick" /\ sched_pc' = "push")
             => (cur'.id = cur.id /\ cur'.priority = cur.priority /\ heap' = heap)
       /\ sched_pc = "push"
             => (sched_pc' \in {"push", "push_locked"} /\ cur' = cur /\ pops' = pops)
       /\ sched_pc = "push_locked"
             => \/ sched_pc' = "push_locked" /\ cur' = cur /\ heap' = heap
                \/ /\ sched_pc' = "pop"
                   /\ BagOf(heap') = BagOf(heap) (+) SetToBag({cur})
       /\ (SchedPopReturns /\ heap # << >>)
             => /\ \A t \in Range(heap) :
                      (/\ t.retry_count > 0
                       /\ \A u \in Range(heap) \ {t} : u.priority < t.priority)
                          => (cur' = t /\ sched_pc' = "quick")
                /\ \A u \in Range(heap) :
                      pops'[u.id] = pops[u.id] + 1
                          => \A t \in Awaiting : t.priority <= u.priority
      ]_vars

\* A Task is in its last attempt, after three requeues, while a Task of
\* lower priority has been waiting in the queue without being popped.
C22_Witness ==
    /\ sched_pc = "quick"
    /\ cur.retry_count = MAX_RETRIES
    /\ requeues[cur.id] = <<1, 2, 3>>
    /\ \E u \in Range(heap) : u.priority < cur.priority /\ pops[u.id] = 0

====
